---- MODULE Spec2Model ----
(***************************************************************************)
(* Model of src/index.js: an Express backend that keeps blog posts in a    *)
(* MongoDB collection (the Repository) and their images in an S3 bucket    *)
(* (the Object Store).  Every await of a handler is a separate step, so    *)
(* requests interleave exactly where the event loop lets them.             *)
(***************************************************************************)
EXTENDS Integers, Sequences, FiniteSets, TLC

\* posts     the Post collection, in the order Post.find({}) returns it
\* store     the bucket: object key -> bytes
\* clock     the value Date.now() returns
\* nextId    the next _id mongoose assigns
\* nCompose  compose requests received so far
\* reqs      per connection, the request being handled: its position (pc),
\*           its locals, the outcome and number of its upstream calls, the
\*           number of responses sent and the response
\* putOk, removed, upstreamFailed
\*           history: keys whose put succeeded, ids whose record a deleteOne
\*           removed, whether any upstream call has failed
VARIABLES posts, store, clock, nextId, nCompose, reqs, putOk, removed, upstreamFailed

vars == <<posts, store, clock, nextId, nCompose, reqs, putOk, removed, upstreamFailed>>

\* ---------------------------------------------------------------- bounds
NumSlots == 2
MaxClock == 1
MaxCompose == 2

Slots == 1..NumSlots

\* ------------------------------------------------------------- constants
\* { expiresIn: 3600 } of both getSignedUrl calls
ExpiresIn == 3600

\* ---------------------------------------------------------------- values
NoKey == <<>>
Null == <<>>
NoFile == [name |-> <<>>, bytes |-> ""]
NoBody == [postTitle |-> "", postContent |-> ""]
NoPost == [id |-> 0, title |-> "", content |-> "", imageKey |-> NoKey]
NoResp == [status |-> 0, body |-> <<>>]
NoAll == [status |-> <<>>, value |-> <<>>, order |-> <<>>, tries |-> <<>>]

\* compose requests a client may send: the file part (originalname split at
\* the dots, and the bytes; NoFile when the form has no file) and req.body
ComposeRequests ==
    { [file |-> [name |-> <<"a", ".", "jpg">>, bytes |-> "B1"],
       body |-> [postTitle |-> "Hello", postContent |-> "World"]],
      [file |-> [name |-> <<"b", ".", "jpg">>, bytes |-> "B2"],
       body |-> [postTitle |-> "Bye", postContent |-> "Moon"]],
      [file |-> NoFile,
       body |-> [postTitle |-> "Hello", postContent |-> "World"]] }

\* ids a caller may put in /posts/:postID; an id has no record before its
\* compose has saved and after its delete
PostIDs == 1..MaxCompose

\* ------------------------------------------------------- pure functions
\* path.extname: from the last "." to the end; "" when there is no dot or
\* the only dot is the first character
LastDot(name) ==
    LET dots == { i \in 1..Len(name) : name[i] = "." }
    IN  IF dots = {} THEN 0
        ELSE CHOOSE i \in dots : \A j \in dots : j <= i

ExtName(name) ==
    IF LastDot(name) <= 1 THEN <<>>
    ELSE SubSeq(name, LastDot(name), Len(name))

\* multerS3 key callback: `Images/${file.fieldname}_${Date.now()}${ext}`
KeyFor(fieldname, now, originalname) ==
    <<"Images/", fieldname, "_", now>> \o ExtName(originalname)

\* getSignedUrl(s3Client, new GetObjectCommand({Key}), {expiresIn: 3600})
SignedUrl(key) ==
    <<"https://", "bucket">> \o key \o <<"X-Amz-Expires", ExpiresIn>>

\* new Post({title, content, imageKey}); mongoose assigns _id on construction
NewPost(id, body, key) ==
    [id |-> id, title |-> body.postTitle, content |-> body.postContent,
     imageKey |-> key]

\* { ...post.toObject(), imageUrl: url }
WithUrl(post, url) ==
    [id |-> post.id, title |-> post.title, content |-> post.content,
     imageKey |-> post.imageKey, imageUrl |-> url]

\* Post.findOne({_id}) / Post.findById: the record or NoPost
FindById(ps, id) ==
    IF \E i \in 1..Len(ps) : ps[i].id = id
    THEN ps[CHOOSE i \in 1..Len(ps) : ps[i].id = id]
    ELSE NoPost

\* Post.deleteOne({_id}): the collection without the record of that id
RECURSIVE Without(_, _)
Without(ps, id) ==
    IF ps = <<>> THEN <<>>
    ELSE IF Head(ps).id = id THEN Tail(ps)
    ELSE <<Head(ps)>> \o Without(Tail(ps), id)

\* ----------------------------------------------------------------- state
\* upstream calls a request has made so far, per operation
NoCalls == [find |-> 0, put |-> 0, save |-> 0, sign |-> 0, objDel |-> 0, recDel |-> 0]

IdleReq ==
    [kind |-> "idle", pc |-> "idle", postID |-> 0, file |-> NoFile,
     body |-> NoBody, key |-> NoKey, post |-> NoPost, found |-> <<>>,
     all |-> NoAll, putRes |-> "none", findRes |-> "none",
     signRes |-> "none", objDel |-> "none", recDel |-> "none",
     objAbsent |-> FALSE, created |-> 0, calls |-> NoCalls, sent |-> 0,
     resp |-> NoResp]

Init ==
    /\ posts = <<>>
    /\ store = <<>>
    /\ clock = 0
    /\ nextId = 1
    /\ nCompose = 0
    /\ reqs = [r \in Slots |-> IdleReq]
    /\ putOk = {}
    /\ removed = {}
    /\ upstreamFailed = FALSE

\* a connection that carries no request, or whose response has been sent
Free(r) == reqs[r].pc \in {"idle", "done"}

\* the server reads a new request from the first connection that has none
Accepts(r) == Free(r) /\ \A q \in Slots : q < r => ~Free(q)

\* res.status(s).json(b) / res.status(s).send(b), the handler's last statement
Respond(r, s, b) ==
    [reqs[r] EXCEPT !.pc = "done", !.resp = [status |-> s, body |-> b],
                    !.sent = @ + 1]

\* ------------------------------------------------------------- Date.now
Tick ==
    /\ clock < MaxClock
    /\ clock' = clock + 1
    /\ UNCHANGED <<posts, store, nextId, nCompose, reqs, putOk, removed, upstreamFailed>>

\* ------------------------------------------------------- POST /compose
\* multer reads the multipart body; for a file part it calls the key
\* callback and starts the S3 upload, without one it goes on to the handler
ComposeStart(r) ==
    /\ Accepts(r)
    /\ nCompose < MaxCompose
    /\ \E c \in ComposeRequests :
         reqs' = [reqs EXCEPT ![r] =
                    [IdleReq EXCEPT !.kind = "compose",
                                    !.pc = IF c.file = NoFile THEN "handler" ELSE "upload",
                                    !.file = c.file,
                                    !.body = c.body,
                                    !.key = IF c.file = NoFile THEN NoKey
                                            ELSE KeyFor("file", clock, c.file.name)]]
    /\ nCompose' = nCompose + 1
    /\ UNCHANGED <<posts, store, clock, nextId, putOk, removed, upstreamFailed>>

\* the S3 put of multer-s3 succeeded: req.file.key is set, next() is called
ComposePutOk(r) ==
    /\ reqs[r].kind = "compose" /\ reqs[r].pc = "upload"
    /\ store' = [k \in DOMAIN store \cup {reqs[r].key} |->
                   IF k = reqs[r].key THEN reqs[r].file.bytes ELSE store[k]]
    /\ putOk' = putOk \cup {reqs[r].key}
    /\ reqs' = [reqs EXCEPT ![r].pc = "handler", ![r].putRes = "ok", ![r].calls.put = @ + 1]
    /\ UNCHANGED <<posts, clock, nextId, nCompose, removed, upstreamFailed>>

\* variant: the upload error is swallowed and the route handler runs
ComposePutFailContinues(r) ==
    /\ reqs[r].kind = "compose" /\ reqs[r].pc = "upload"
    /\ reqs' = [reqs EXCEPT ![r].pc = "handler", ![r].putRes = "fail", ![r].calls.put = @ + 1]
    /\ upstreamFailed' = TRUE
    /\ UNCHANGED <<posts, store, clock, nextId, nCompose, putOk, removed>>

\* the S3 put failed: multer calls next(err), the route handler never runs
\* and Express' default error handler answers 500
ComposePutFail(r) ==
    /\ reqs[r].kind = "compose" /\ reqs[r].pc = "upload"
    /\ reqs' = [reqs EXCEPT ![r] =
                  [Respond(r, 500, "Internal Server Error") EXCEPT !.putRes = "fail", !.calls.put = @ + 1]]
    /\ upstreamFailed' = TRUE
    /\ UNCHANGED <<posts, store, clock, nextId, nCompose, putOk, removed>>

\* the route handler up to `await post.save()`; req.file.key throws a
\* TypeError when there is no file, which the catch turns into a 500
ComposeHandler(r) ==
    /\ reqs[r].kind = "compose" /\ reqs[r].pc = "handler"
    /\ IF reqs[r].file = NoFile
       THEN /\ reqs' = [reqs EXCEPT ![r] = Respond(r, 500, "Error saving post")]
            /\ UNCHANGED nextId
       ELSE /\ reqs' = [reqs EXCEPT ![r].pc = "save",
                                    ![r].post = NewPost(nextId, reqs[r].body, reqs[r].key)]
            /\ nextId' = nextId + 1
    /\ UNCHANGED <<posts, store, clock, nCompose, putOk, removed, upstreamFailed>>

ComposeSaveOk(r) ==
    /\ reqs[r].kind = "compose" /\ reqs[r].pc = "save"
    /\ posts' = Append(posts, reqs[r].post)
    /\ reqs' = [reqs EXCEPT ![r] =
                  [Respond(r, 201, reqs[r].post) EXCEPT !.created = 1, !.calls.save = @ + 1]]
    /\ UNCHANGED <<store, clock, nextId, nCompose, putOk, removed, upstreamFailed>>

\* variant: a failed save is compensated by deleting the uploaded object
ComposeSaveFailRollsBack(r) ==
    /\ reqs[r].kind = "compose" /\ reqs[r].pc = "save"
    /\ reqs' = [reqs EXCEPT ![r] =
                  [Respond(r, 500, "Error saving post") EXCEPT !.calls.save = @ + 1]]
    /\ store' = [k \in DOMAIN store \ {reqs[r].key} |-> store[k]]
    /\ upstreamFailed' = TRUE
    /\ UNCHANGED <<posts, clock, nextId, nCompose, putOk, removed>>

ComposeSaveFail(r) ==
    /\ reqs[r].kind = "compose" /\ reqs[r].pc = "save"
    /\ reqs' = [reqs EXCEPT ![r] =
                  [Respond(r, 500, "Error saving post") EXCEPT !.calls.save = @ + 1]]
    /\ upstreamFailed' = TRUE
    /\ UNCHANGED <<posts, store, clock, nextId, nCompose, putOk, removed>>

\* ---------------------------------------------------------------- GET /
ListStart(r) ==
    /\ Accepts(r)
    /\ reqs' = [reqs EXCEPT ![r] = [IdleReq EXCEPT !.kind = "list", !.pc = "find"]]
    /\ UNCHANGED <<posts, store, clock, nextId, nCompose, putOk, removed, upstreamFailed>>

\* Promise.all over posts.map(async ...): one pending promise per record
AllPending(ps) ==
    [status |-> [i \in 1..Len(ps) |-> "pending"],
     value |-> [i \in 1..Len(ps) |-> WithUrl(NoPost, Null)],
     order |-> <<>>,
     tries |-> [i \in 1..Len(ps) |-> 0]]

\* Promise.all stores the value of the i-th promise at index i, whenever it
\* settles; order records the order of completion
SettleInCompletionOrder(all, i, st, v) ==
    [status |-> [all.status EXCEPT ![i] = st],
     value |-> [all.value EXCEPT ![Len(all.order) + 1] = v],
     order |-> Append(all.order, i),
     tries |-> [all.tries EXCEPT ![i] = @ + 1]]

Settle(all, i, st, v) ==
    [status |-> [all.status EXCEPT ![i] = st],
     value |-> [all.value EXCEPT ![i] = v],
     order |-> Append(all.order, i),
     tries |-> [all.tries EXCEPT ![i] = @ + 1]]

\* `await Post.find({})` returned the records in collection order
ListFindOk(r) ==
    /\ reqs[r].kind = "list" /\ reqs[r].pc = "find"
    /\ reqs' = [reqs EXCEPT ![r].pc = "sign",
                            ![r].findRes = "ok", ![r].calls.find = @ + 1,
                            ![r].found = posts,
                            ![r].all = AllPending(posts)]
    /\ UNCHANGED <<posts, store, clock, nextId, nCompose, putOk, removed, upstreamFailed>>

ListFindFail(r) ==
    /\ reqs[r].kind = "list" /\ reqs[r].pc = "find"
    /\ reqs' = [reqs EXCEPT ![r] =
                  [Respond(r, 500, "Error fetching posts") EXCEPT !.findRes = "fail", !.calls.find = @ + 1]]
    /\ upstreamFailed' = TRUE
    /\ UNCHANGED <<posts, store, clock, nextId, nCompose, putOk, removed>>

\* the signing of the i-th record resolved, in whatever order
ListSignOk(r, i) ==
    /\ reqs[r].kind = "list" /\ reqs[r].pc = "sign"
    /\ reqs[r].all.status[i] = "pending"
    /\ reqs' = [reqs EXCEPT ![r].all =
                  Settle(reqs[r].all, i, "ok",
                         WithUrl(reqs[r].found[i], SignedUrl(reqs[r].found[i].imageKey)))]
    /\ UNCHANGED <<posts, store, clock, nextId, nCompose, putOk, removed, upstreamFailed>>

\* variant: a record whose image cannot be signed is dropped from the collection
ListSignFailPurges(r, i) ==
    /\ reqs[r].kind = "list" /\ reqs[r].pc = "sign"
    /\ reqs[r].all.status[i] = "pending"
    /\ reqs' = [reqs EXCEPT ![r].all =
                  Settle(reqs[r].all, i, "fail", WithUrl(reqs[r].found[i], Null))]
    /\ posts' = Without(posts, reqs[r].found[i].id)
    /\ upstreamFailed' = TRUE
    /\ UNCHANGED <<store, clock, nextId, nCompose, putOk, removed>>

\* variant: no inner catch, the rejection reaches the outer catch
ListSignFailAborts(r, i) ==
    /\ reqs[r].kind = "list" /\ reqs[r].pc = "sign"
    /\ reqs[r].all.status[i] = "pending"
    /\ reqs' = [reqs EXCEPT ![r] =
                  [Respond(r, 500, "Error fetching posts")
                     EXCEPT !.all = Settle(reqs[r].all, i, "fail", WithUrl(reqs[r].found[i], Null))]]
    /\ upstreamFailed' = TRUE
    /\ UNCHANGED <<posts, store, clock, nextId, nCompose, putOk, removed>>

\* the signing of the i-th record rejected: the inner catch returns the
\* record with imageUrl null
ListSignFail(r, i) ==
    /\ reqs[r].kind = "list" /\ reqs[r].pc = "sign"
    /\ reqs[r].all.status[i] = "pending"
    /\ reqs' = [reqs EXCEPT ![r].all =
                  Settle(reqs[r].all, i, "fail", WithUrl(reqs[r].found[i], Null))]
    /\ upstreamFailed' = TRUE
    /\ UNCHANGED <<posts, store, clock, nextId, nCompose, putOk, removed>>

\* every promise has settled: res.status(200).json(postsWithUrls)
ListRespond(r) ==
    /\ reqs[r].kind = "list" /\ reqs[r].pc = "sign"
    /\ \A i \in 1..Len(reqs[r].found) : reqs[r].all.status[i] # "pending"
    /\ reqs' = [reqs EXCEPT ![r] = Respond(r, 200, reqs[r].all.value)]
    /\ UNCHANGED <<posts, store, clock, nextId, nCompose, putOk, removed, upstreamFailed>>

\* ------------------------------------------------- GET /posts/:postID
DetailStart(r) ==
    /\ Accepts(r)
    /\ \E id \in PostIDs :
         reqs' = [reqs EXCEPT ![r] =
                    [IdleReq EXCEPT !.kind = "detail", !.pc = "find", !.postID = id]]
    /\ UNCHANGED <<posts, store, clock, nextId, nCompose, putOk, removed, upstreamFailed>>

\* `await Post.findOne({_id: postID})`: 404 when there is no record
DetailFindOk(r) ==
    /\ reqs[r].kind = "detail" /\ reqs[r].pc = "find"
    /\ LET p == FindById(posts, reqs[r].postID)
       IN  reqs' = [reqs EXCEPT ![r] =
                      IF p = NoPost
                      THEN [Respond(r, 404, "Post not found") EXCEPT !.findRes = "ok", !.calls.find = @ + 1]
                      ELSE [reqs[r] EXCEPT !.pc = "sign", !.findRes = "ok", !.calls.find = @ + 1, !.post = p]]
    /\ UNCHANGED <<posts, store, clock, nextId, nCompose, putOk, removed, upstreamFailed>>

DetailFindFail(r) ==
    /\ reqs[r].kind = "detail" /\ reqs[r].pc = "find"
    /\ reqs' = [reqs EXCEPT ![r] =
                  [Respond(r, 500, "Error fetching post") EXCEPT !.findRes = "fail", !.calls.find = @ + 1]]
    /\ upstreamFailed' = TRUE
    /\ UNCHANGED <<posts, store, clock, nextId, nCompose, putOk, removed>>

DetailSignOk(r) ==
    /\ reqs[r].kind = "detail" /\ reqs[r].pc = "sign"
    /\ reqs' = [reqs EXCEPT ![r] =
                  [Respond(r, 200, WithUrl(reqs[r].post, SignedUrl(reqs[r].post.imageKey)))
                     EXCEPT !.signRes = "ok", !.calls.sign = @ + 1]]
    /\ UNCHANGED <<posts, store, clock, nextId, nCompose, putOk, removed, upstreamFailed>>

\* variant: the detail handler degrades like the list handler
DetailSignFailDegrades(r) ==
    /\ reqs[r].kind = "detail" /\ reqs[r].pc = "sign"
    /\ reqs' = [reqs EXCEPT ![r] =
                  [Respond(r, 200, WithUrl(reqs[r].post, Null)) EXCEPT !.signRes = "fail", !.calls.sign = @ + 1]]
    /\ upstreamFailed' = TRUE
    /\ UNCHANGED <<posts, store, clock, nextId, nCompose, putOk, removed>>

\* getSignedUrl rejected: the outer catch answers 500
DetailSignFail(r) ==
    /\ reqs[r].kind = "detail" /\ reqs[r].pc = "sign"
    /\ reqs' = [reqs EXCEPT ![r] =
                  [Respond(r, 500, "Error fetching post") EXCEPT !.signRes = "fail", !.calls.sign = @ + 1]]
    /\ upstreamFailed' = TRUE
    /\ UNCHANGED <<posts, store, clock, nextId, nCompose, putOk, removed>>

\* ---------------------------------------------- DELETE /posts/:postID
DeleteStart(r) ==
    /\ Accepts(r)
    /\ \E id \in PostIDs :
         reqs' = [reqs EXCEPT ![r] =
                    [IdleReq EXCEPT !.kind = "delete", !.pc = "find", !.postID = id]]
    /\ UNCHANGED <<posts, store, clock, nextId, nCompose, putOk, removed, upstreamFailed>>

\* variant: no `if (!post)` check, the handler goes on with nothing found
DeleteFindOkNoCheck(r) ==
    /\ reqs[r].kind = "delete" /\ reqs[r].pc = "find"
    /\ reqs' = [reqs EXCEPT ![r].pc = "s3delete", ![r].findRes = "ok",
                            ![r].calls.find = @ + 1,
                            ![r].post = FindById(posts, reqs[r].postID)]
    /\ UNCHANGED <<posts, store, clock, nextId, nCompose, putOk, removed, upstreamFailed>>

\* variant: the 404 is sent without `return`, the handler runs on
DeleteFindOkNoReturn(r) ==
    /\ reqs[r].kind = "delete" /\ reqs[r].pc = "find"
    /\ LET p == FindById(posts, reqs[r].postID)
       IN  reqs' = [reqs EXCEPT ![r] =
                      IF p = NoPost
                      THEN [Respond(r, 404, "Post not found")
                              EXCEPT !.pc = "s3delete", !.findRes = "ok",
                                     !.calls.find = @ + 1]
                      ELSE [reqs[r] EXCEPT !.pc = "s3delete", !.findRes = "ok",
                                           !.calls.find = @ + 1, !.post = p]]
    /\ UNCHANGED <<posts, store, clock, nextId, nCompose, putOk, removed, upstreamFailed>>

\* variant: the record is removed without deleting the image first
DeleteFindOkSkipsObject(r) ==
    /\ reqs[r].kind = "delete" /\ reqs[r].pc = "find"
    /\ LET p == FindById(posts, reqs[r].postID)
       IN  reqs' = [reqs EXCEPT ![r] =
                      IF p = NoPost
                      THEN [Respond(r, 404, "Post not found") EXCEPT !.findRes = "ok", !.calls.find = @ + 1]
                      ELSE [reqs[r] EXCEPT !.pc = "dbdelete", !.findRes = "ok", !.calls.find = @ + 1, !.post = p]]
    /\ UNCHANGED <<posts, store, clock, nextId, nCompose, putOk, removed, upstreamFailed>>

\* `await Post.findById(postID)`: 404 when there is no record
DeleteFindOk(r) ==
    /\ reqs[r].kind = "delete" /\ reqs[r].pc = "find"
    /\ LET p == FindById(posts, reqs[r].postID)
       IN  reqs' = [reqs EXCEPT ![r] =
                      IF p = NoPost
                      THEN [Respond(r, 404, "Post not found") EXCEPT !.findRes = "ok", !.calls.find = @ + 1]
                      ELSE [reqs[r] EXCEPT !.pc = "s3delete", !.findRes = "ok", !.calls.find = @ + 1, !.post = p]]
    /\ UNCHANGED <<posts, store, clock, nextId, nCompose, putOk, removed, upstreamFailed>>

DeleteFindFail(r) ==
    /\ reqs[r].kind = "delete" /\ reqs[r].pc = "find"
    /\ reqs' = [reqs EXCEPT ![r] =
                  [Respond(r, 500, "Error deleting post") EXCEPT !.findRes = "fail", !.calls.find = @ + 1]]
    /\ upstreamFailed' = TRUE
    /\ UNCHANGED <<posts, store, clock, nextId, nCompose, putOk, removed>>

\* variant: an ok for a key that is not there is treated as an error
DeleteObjectOkAbortsWhenMissing(r) ==
    /\ reqs[r].kind = "delete" /\ reqs[r].pc = "s3delete"
    /\ store' = [k \in DOMAIN store \ {reqs[r].post.imageKey} |-> store[k]]
    /\ reqs' = [reqs EXCEPT ![r] =
                  IF reqs[r].post.imageKey \in DOMAIN store
                  THEN [reqs[r] EXCEPT !.pc = "dbdelete", !.objDel = "ok",
                                       !.calls.objDel = @ + 1]
                  ELSE [Respond(r, 500, "Error deleting post")
                          EXCEPT !.objDel = "ok", !.calls.objDel = @ + 1,
                                 !.objAbsent = TRUE]]
    /\ UNCHANGED <<posts, clock, nextId, nCompose, putOk, removed, upstreamFailed>>

\* DeleteObjectCommand for post.imageKey succeeded (S3 also answers ok for
\* a key that is not there)
DeleteObjectOk(r) ==
    /\ reqs[r].kind = "delete" /\ reqs[r].pc = "s3delete"
    /\ store' = [k \in DOMAIN store \ {reqs[r].post.imageKey} |-> store[k]]
    /\ reqs' = [reqs EXCEPT ![r].pc = "dbdelete", ![r].objDel = "ok",
                            ![r].calls.objDel = @ + 1,
                            ![r].objAbsent = reqs[r].post.imageKey \notin DOMAIN store]
    /\ UNCHANGED <<posts, clock, nextId, nCompose, putOk, removed, upstreamFailed>>

\* variant: a rejected DeleteObjectCommand is tried again
DeleteObjectFailRetries(r) ==
    /\ reqs[r].kind = "delete" /\ reqs[r].pc = "s3delete"
    /\ reqs' = [reqs EXCEPT ![r].objDel = "fail", ![r].calls.objDel = @ + 1]
    /\ upstreamFailed' = TRUE
    /\ UNCHANGED <<posts, store, clock, nextId, nCompose, putOk, removed>>

\* variant: the rejection is swallowed and the record is removed anyway
DeleteObjectFailContinues(r) ==
    /\ reqs[r].kind = "delete" /\ reqs[r].pc = "s3delete"
    /\ reqs' = [reqs EXCEPT ![r].pc = "dbdelete", ![r].objDel = "fail", ![r].calls.objDel = @ + 1]
    /\ upstreamFailed' = TRUE
    /\ UNCHANGED <<posts, store, clock, nextId, nCompose, putOk, removed>>

\* DeleteObjectCommand rejected: the catch answers 500, deleteOne is skipped
DeleteObjectFail(r) ==
    /\ reqs[r].kind = "delete" /\ reqs[r].pc = "s3delete"
    /\ reqs' = [reqs EXCEPT ![r] =
                  [Respond(r, 500, "Error deleting post") EXCEPT !.objDel = "fail", !.calls.objDel = @ + 1]]
    /\ upstreamFailed' = TRUE
    /\ UNCHANGED <<posts, store, clock, nextId, nCompose, putOk, removed>>

\* variant: a deleteOne that matched no record is answered as an error
DeleteRecordOkRequiresMatch(r) ==
    /\ reqs[r].kind = "delete" /\ reqs[r].pc = "dbdelete"
    /\ posts' = Without(posts, reqs[r].postID)
    /\ reqs' = [reqs EXCEPT ![r] =
                  IF FindById(posts, reqs[r].postID) = NoPost
                  THEN [Respond(r, 500, "Error deleting post")
                          EXCEPT !.recDel = "ok", !.calls.recDel = @ + 1]
                  ELSE [Respond(r, 200, "Post and image deleted")
                          EXCEPT !.recDel = "ok", !.calls.recDel = @ + 1]]
    /\ removed' = IF FindById(posts, reqs[r].postID) = NoPost THEN removed
                  ELSE removed \cup {reqs[r].postID}
    /\ UNCHANGED <<store, clock, nextId, nCompose, putOk, upstreamFailed>>

\* `await Post.deleteOne({_id: postID})` succeeded
DeleteRecordOk(r) ==
    /\ reqs[r].kind = "delete" /\ reqs[r].pc = "dbdelete"
    /\ posts' = Without(posts, reqs[r].postID)
    /\ reqs' = [reqs EXCEPT ![r] =
                  [Respond(r, 200, "Post and image deleted") EXCEPT !.recDel = "ok", !.calls.recDel = @ + 1]]
    /\ removed' = IF FindById(posts, reqs[r].postID) = NoPost THEN removed
                  ELSE removed \cup {reqs[r].postID}
    /\ UNCHANGED <<store, clock, nextId, nCompose, putOk, upstreamFailed>>

\* variant: the record is removed although deleteOne reported a failure
DeleteRecordFailRemoves(r) ==
    /\ reqs[r].kind = "delete" /\ reqs[r].pc = "dbdelete"
    /\ posts' = Without(posts, reqs[r].postID)
    /\ reqs' = [reqs EXCEPT ![r] =
                  [Respond(r, 500, "Error deleting post")
                     EXCEPT !.recDel = "fail", !.calls.recDel = @ + 1]]
    /\ upstreamFailed' = TRUE
    /\ UNCHANGED <<store, clock, nextId, nCompose, putOk, removed>>

DeleteRecordFail(r) ==
    /\ reqs[r].kind = "delete" /\ reqs[r].pc = "dbdelete"
    /\ reqs' = [reqs EXCEPT ![r] =
                  [Respond(r, 500, "Error deleting post") EXCEPT !.recDel = "fail", !.calls.recDel = @ + 1]]
    /\ upstreamFailed' = TRUE
    /\ UNCHANGED <<posts, store, clock, nextId, nCompose, putOk, removed>>

Next ==
    \/ Tick
    \/ \E r \in Slots :
         \/ ComposeStart(r)
         \/ ComposePutOk(r)
         \/ ComposePutFail(r)
         \/ ComposeHandler(r)
         \/ ComposeSaveOk(r)
         \/ ComposeSaveFail(r)
         \/ ListStart(r)
         \/ ListFindOk(r)
         \/ ListFindFail(r)
         \/ \E i \in 1..Len(reqs[r].found) : ListSignOk(r, i)
         \/ \E i \in 1..Len(reqs[r].found) : ListSignFail(r, i)
         \/ ListRespond(r)
         \/ DetailStart(r)
         \/ DetailFindOk(r)
         \/ DetailFindFail(r)
         \/ DetailSignOk(r)
         \/ DetailSignFail(r)
         \/ DeleteStart(r)
         \/ DeleteFindOk(r)
         \/ DeleteFindFail(r)
         \/ DeleteObjectOk(r)
         \/ DeleteObjectFail(r)
         \/ DeleteRecordOk(r)
         \/ DeleteRecordFail(r)

Spec == Init /\ [][Next]_vars

\* the continuations of the request on connection r: every step but the
\* arrival of a request
Progress(r) ==
    \/ ComposePutOk(r) \/ ComposePutFail(r) \/ ComposeHandler(r)
    \/ ComposeSaveOk(r) \/ ComposeSaveFail(r)
    \/ ListFindOk(r) \/ ListFindFail(r) \/ ListRespond(r)
    \/ \E i \in 1..Len(reqs[r].found) : ListSignOk(r, i) \/ ListSignFail(r, i)
    \/ DetailFindOk(r) \/ DetailFindFail(r)
    \/ DetailSignOk(r) \/ DetailSignFail(r)
    \/ DeleteFindOk(r) \/ DeleteFindFail(r)
    \/ DeleteObjectOk(r) \/ DeleteObjectFail(r)
    \/ DeleteRecordOk(r) \/ DeleteRecordFail(r)

\* one request per connection: a connection that has answered stays as it is
OneShotNext ==
    \/ Tick
    \/ \E r \in Slots :
         \/ reqs[r].pc = "idle" /\ ComposeStart(r)
         \/ reqs[r].pc = "idle" /\ ListStart(r)
         \/ reqs[r].pc = "idle" /\ DetailStart(r)
         \/ reqs[r].pc = "idle" /\ DeleteStart(r)
         \/ Progress(r)

\* every awaited upstream call eventually settles and the event loop then
\* runs the continuation
FairSpec ==
    /\ Init
    /\ [][OneShotNext]_vars
    /\ \A r \in Slots : WF_vars(Progress(r))

\* ------------------------------------------------------------ properties
Done(r) == reqs[r].pc = "done"
Records == { posts[i] : i \in 1..Len(posts) }

\* C1: every record of the Repository carries a key under which a put has
\* succeeded; a compose only reaches save after its own put succeeded; a
\* compose whose put failed has answered 500, built no record and created
\* none, and the step in which its put fails leaves the Repository as it was.
C1_PutBeforeRecord ==
    /\ [](/\ \A p \in Records : p.imageKey \in putOk
          /\ \A r \in Slots :
               reqs[r].kind = "compose" =>
                 /\ (reqs[r].pc = "save" \/ reqs[r].created = 1) =>
                       reqs[r].putRes = "ok" /\ reqs[r].post.imageKey \in putOk
                 /\ reqs[r].putRes = "fail" =>
                       /\ Done(r) /\ reqs[r].resp.status = 500
                       /\ reqs[r].post = NoPost /\ reqs[r].created = 0)
    /\ [][\A r \in Slots :
            (reqs[r].pc = "upload" /\ reqs'[r].putRes = "fail") => posts' = posts]_vars

C1_Witness ==
    \E r \in Slots :
        /\ reqs[r].kind = "compose" /\ reqs[r].putRes = "fail" /\ Done(r)
        /\ reqs[r].resp.status = 500
        /\ Len(posts) = 1

\* C2: a delete whose object-store delete failed has answered 500 and never
\* asked the Repository to remove the record; the failing step leaves the
\* Repository as it was, and the record it found is still found by id
\* unless another delete workflow has removed it.
C2_DeleteFailClosed ==
    /\ [](\A r \in Slots :
            (reqs[r].kind = "delete" /\ reqs[r].objDel = "fail") =>
               /\ Done(r) /\ reqs[r].resp.status = 500
               /\ reqs[r].recDel = "none"
               /\ \/ FindById(posts, reqs[r].postID) = reqs[r].post
                  \/ reqs[r].postID \in removed)
    /\ [][\A r \in Slots :
            (reqs[r].pc = "s3delete" /\ reqs'[r].objDel = "fail") =>
               /\ posts' = posts
               /\ FindById(posts', reqs[r].postID) = FindById(posts, reqs[r].postID)]_vars

C2_Witness ==
    \E r \in Slots :
        /\ reqs[r].kind = "delete" /\ reqs[r].objDel = "fail" /\ Done(r)
        /\ reqs[r].resp.status = 500
        /\ reqs[r].post # NoPost
        /\ FindById(posts, reqs[r].postID) = reqs[r].post

\* C3: whenever a record leaves the Repository, the step is the deleteOne
\* of a delete workflow for that id whose object-store delete of that
\* record's imageKey had already returned successfully.
C3_ObjectDeletedFirst ==
    [][\A p \in Records :
          p \notin Records' =>
             \E r \in Slots :
                 /\ reqs[r].kind = "delete" /\ reqs[r].pc = "dbdelete"
                 /\ reqs'[r].pc = "done"
                 /\ reqs[r].postID = p.id
                 /\ reqs[r].objDel = "ok"
                 /\ reqs[r].post.imageKey = p.imageKey]_vars

C3_Witness ==
    \E r \in Slots :
        /\ reqs[r].kind = "delete" /\ Done(r) /\ reqs[r].resp.status = 200
        /\ reqs[r].objDel = "ok" /\ reqs[r].recDel = "ok"
        /\ reqs[r].postID \in removed
        /\ FindById(posts, reqs[r].postID) = NoPost

NullItems(body) == { i \in 1..Len(body) : body[i].imageUrl = Null }

\* C4: a list whose Repository read succeeded with N records answers 200
\* with N items; the imageUrl of item i is null exactly when the signing of
\* record i failed and is the signed URL of its imageKey otherwise.

C4_ListDegrades ==
    \A r \in Slots :
        (reqs[r].kind = "list" /\ Done(r) /\ reqs[r].findRes = "ok") =>
           /\ reqs[r].resp.status = 200
           /\ Len(reqs[r].resp.body) = Len(reqs[r].found)
           /\ \A i \in 1..Len(reqs[r].found) :
                /\ reqs[r].all.status[i] \in {"ok", "fail"}
                /\ reqs[r].all.status[i] = "fail" <=> i \in NullItems(reqs[r].resp.body)
                /\ reqs[r].all.status[i] = "ok" =>
                     reqs[r].resp.body[i].imageUrl = SignedUrl(reqs[r].found[i].imageKey)

C4_Witness ==
    \E r \in Slots :
        /\ reqs[r].kind = "list" /\ Done(r) /\ reqs[r].resp.status = 200
        /\ Len(reqs[r].found) = 2
        /\ Len(reqs[r].resp.body) = 2
        /\ Cardinality(NullItems(reqs[r].resp.body)) = 1

\* C5: item i of a list response is record i of what the Repository
\* returned, whatever the order in which the signings completed.
C5_ListKeepsOrder ==
    \A r \in Slots :
        (reqs[r].kind = "list" /\ Done(r) /\ reqs[r].resp.status = 200) =>
           /\ Len(reqs[r].resp.body) = Len(reqs[r].found)
           /\ \A i \in 1..Len(reqs[r].found) :
                /\ reqs[r].resp.body[i].id = reqs[r].found[i].id
                /\ reqs[r].resp.body[i].title = reqs[r].found[i].title
                /\ reqs[r].resp.body[i].content = reqs[r].found[i].content

C5_Witness ==
    \E r \in Slots :
        /\ reqs[r].kind = "list" /\ Done(r) /\ reqs[r].resp.status = 200
        /\ reqs[r].all.order = <<2, 1>>
        /\ reqs[r].resp.body[1].id = reqs[r].found[1].id
        /\ reqs[r].resp.body[2].id = reqs[r].found[2].id
        /\ reqs[r].found[1].id # reqs[r].found[2].id

\* C6: a detail whose signing failed answers 500 with an error text, not a
\* post; a detail that answers 200 carries the signed URL of its imageKey.
C6_DetailFailsVisibly ==
    \A r \in Slots :
        (reqs[r].kind = "detail" /\ Done(r)) =>
           /\ reqs[r].signRes = "fail" =>
                /\ reqs[r].resp.status = 500
                /\ reqs[r].resp.body = "Error fetching post"
           /\ reqs[r].resp.status = 200 =>
                /\ reqs[r].signRes = "ok"
                /\ reqs[r].resp.body.id = reqs[r].postID
                /\ reqs[r].resp.body.imageUrl # Null
                /\ reqs[r].resp.body.imageUrl = SignedUrl(reqs[r].post.imageKey)

C6_Witness ==
    \E r \in Slots :
        /\ reqs[r].kind = "detail" /\ Done(r)
        /\ reqs[r].post # NoPost
        /\ reqs[r].signRes = "fail"
        /\ reqs[r].resp.status = 500

\* C7: a compose without a file part answers with a client error (4xx) and
\* creates no record.
C7_MissingImageIsClientError ==
    \A r \in Slots :
        (reqs[r].kind = "compose" /\ Done(r) /\ reqs[r].file = NoFile) =>
           /\ reqs[r].resp.status \in 400..499
           /\ reqs[r].created = 0

\* C8: two uploads never get the same object key: no two compose requests
\* in progress hold the same key and no two records share an imageKey.
C8_KeysUnique ==
    /\ \A i, j \in 1..Len(posts) : i # j => posts[i].imageKey # posts[j].imageKey
    /\ \A r, q \in Slots :
         (r # q /\ reqs[r].kind = "compose" /\ reqs[q].kind = "compose"
               /\ ~Done(r) /\ ~Done(q) /\ reqs[r].key # NoKey)
            => reqs[r].key # reqs[q].key

InFlightDelete(id) ==
    \E r \in Slots : reqs[r].kind = "delete" /\ ~Free(r) /\ reqs[r].postID = id

\* C9: as long as no upstream call has failed, every record that no delete
\* in progress targets has an object stored under its imageKey.

C9_RecordHasObject ==
    ~upstreamFailed =>
        \A p \in Records : ~InFlightDelete(p.id) => p.imageKey \in DOMAIN store

\* C10: no compose, list or detail response carries an imageKey.
C10_KeyNotExposed ==
    \A r \in Slots :
        Done(r) =>
           /\ (reqs[r].kind = "compose" /\ reqs[r].resp.status = 201) =>
                 "imageKey" \notin DOMAIN reqs[r].resp.body
           /\ (reqs[r].kind = "detail" /\ reqs[r].resp.status = 200) =>
                 "imageKey" \notin DOMAIN reqs[r].resp.body
           /\ (reqs[r].kind = "list" /\ reqs[r].resp.status = 200) =>
                 \A i \in 1..Len(reqs[r].resp.body) :
                     "imageKey" \notin DOMAIN reqs[r].resp.body[i]

C12_DeletedPostIsGone ==
    \A r \in Slots :
        (reqs[r].kind = "delete" /\ Done(r) /\ reqs[r].resp.status = 200) =>
           /\ FindById(posts, reqs[r].postID) = NoPost
           /\ \A i \in 1..Len(posts) : posts[i].id # reqs[r].postID
           /\ reqs[r].post.imageKey \notin DOMAIN store

NoDeleteSoFar ==
    /\ removed = {}
    /\ \A r \in Slots : ~(reqs[r].kind = "delete" /\ reqs[r].objDel = "ok")

\* what a list answers for record p when nothing fails
Listed(p) == WithUrl(p, SignedUrl(p.imageKey))

\* C13: with no delete and no upstream failure so far, a compose that has
\* answered 201 for title T and content C has a record that a list returns
\* with T, C and a non-null imageUrl, and the Object Store holds the
\* uploaded bytes under its imageKey.
C13_RoundTrip ==
    (~upstreamFailed /\ NoDeleteSoFar) =>
        \A r \in Slots :
            (reqs[r].kind = "compose" /\ Done(r) /\ reqs[r].resp.status = 201) =>
               /\ \E p \in Records :
                    /\ p.id = reqs[r].post.id
                    /\ Listed(p).title = reqs[r].body.postTitle
                    /\ Listed(p).content = reqs[r].body.postContent
                    /\ Listed(p).imageUrl # Null
                    /\ p.imageKey \in DOMAIN store
                    /\ store[p.imageKey] = reqs[r].file.bytes

\* C14: a delete whose object-store delete returned ok for a key that was
\* not in the store goes on to deleteOne; when that succeeds it answers 200
\* and the record is gone.
C14_DeleteOfMissingObject ==
    \A r \in Slots :
        (reqs[r].kind = "delete" /\ reqs[r].objDel = "ok" /\ reqs[r].objAbsent) =>
           /\ reqs[r].pc \in {"dbdelete", "done"}
           /\ Done(r) =>
                /\ reqs[r].calls.recDel = 1
                /\ reqs[r].recDel = "ok" =>
                     /\ reqs[r].resp.status = 200
                     /\ FindById(posts, reqs[r].postID) = NoPost

\* the record had been left behind by a delete whose deleteOne failed
C14_Witness ==
    \E r \in Slots :
        /\ reqs[r].kind = "delete" /\ Done(r) /\ reqs[r].objAbsent
        /\ reqs[r].objDel = "ok" /\ reqs[r].recDel = "ok"
        /\ reqs[r].resp.status = 200
        /\ upstreamFailed
        /\ reqs[r].postID \in removed
        /\ reqs[r].post.imageKey \in putOk

\* C15: a compose whose put succeeded and whose save failed has answered
\* 500, has no record and has issued no object-store delete; the step in
\* which the save fails leaves the Object Store and the Repository alone.
C15_NoRollbackInCompose ==
    /\ [](\A r \in Slots :
            (reqs[r].kind = "compose" /\ reqs[r].putRes = "ok" /\ Done(r)
                 /\ reqs[r].created = 0) =>
               /\ reqs[r].resp.status = 500
               /\ reqs[r].calls.save = 1
               /\ reqs[r].calls.objDel = 0
               /\ FindById(posts, reqs[r].post.id) = NoPost)
    /\ [][\A r \in Slots :
            (reqs[r].kind = "compose" /\ reqs[r].pc = "save"
                 /\ reqs'[r].pc = "done" /\ reqs'[r].created = 0) =>
               /\ store' = store
               /\ posts' = posts
               /\ reqs'[r].resp.status = 500]_vars

\* the orphaned object: stored, and no record carries its key
C15_Witness ==
    \E r \in Slots :
        /\ reqs[r].kind = "compose" /\ Done(r) /\ reqs[r].putRes = "ok"
        /\ reqs[r].created = 0 /\ reqs[r].resp.status = 500
        /\ reqs[r].key \in DOMAIN store
        /\ store[reqs[r].key] = reqs[r].file.bytes
        /\ \A p \in Records : p.imageKey # reqs[r].key

\* C16: a delete whose object-store delete succeeded and whose deleteOne
\* failed has answered 500 and has put nothing back; the object-store
\* delete left no object under the key, and the step in which deleteOne
\* fails leaves the Repository and the Object Store alone.
C16_ReverseOrphan ==
    /\ [](\A r \in Slots :
            (reqs[r].kind = "delete" /\ reqs[r].objDel = "ok"
                 /\ reqs[r].recDel = "fail") =>
               /\ Done(r) /\ reqs[r].resp.status = 500
               /\ reqs[r].calls.put = 0)
    /\ [][\A r \in Slots :
            /\ (reqs[r].kind = "delete" /\ reqs[r].pc = "s3delete"
                  /\ reqs'[r].objDel = "ok") =>
                 reqs[r].post.imageKey \notin DOMAIN store'
            /\ (reqs[r].kind = "delete" /\ reqs[r].pc = "dbdelete"
                  /\ reqs'[r].recDel = "fail") =>
                 /\ posts' = posts
                 /\ store' = store
                 /\ reqs'[r].resp.status = 500]_vars

C16_Witness ==
    \E r \in Slots :
        /\ reqs[r].kind = "delete" /\ Done(r)
        /\ reqs[r].objDel = "ok" /\ reqs[r].recDel = "fail"
        /\ reqs[r].resp.status = 500
        /\ reqs[r].post # NoPost
        /\ FindById(posts, reqs[r].postID) = reqs[r].post
        /\ reqs[r].post.imageKey \notin DOMAIN store

\* C17: within one request every upstream call is made at most once: the
\* find, put, save, sign, object delete and record delete of a handler, and
\* the signing of each record of a list.
C17_NoRetries ==
    \A r \in Slots :
        /\ reqs[r].calls.find <= 1
        /\ reqs[r].calls.put <= 1
        /\ reqs[r].calls.save <= 1
        /\ reqs[r].calls.sign <= 1
        /\ reqs[r].calls.objDel <= 1
        /\ reqs[r].calls.recDel <= 1
        /\ \A i \in 1..Len(reqs[r].all.tries) : reqs[r].all.tries[i] <= 1

\* a delete that gave up after one failed object delete, next to a list
\* that signed each of its records once, one of them failing
C17_Witness ==
    \E r, q \in Slots :
        /\ reqs[r].kind = "delete" /\ Done(r) /\ reqs[r].objDel = "fail"
        /\ reqs[r].calls.find = 1 /\ reqs[r].calls.objDel = 1
        /\ reqs[r].calls.recDel = 0
        /\ reqs[q].kind = "list" /\ Done(q)
        /\ Len(reqs[q].found) >= 1
        /\ reqs[q].all.status[1] = "fail"
        /\ \A i \in 1..Len(reqs[q].found) : reqs[q].all.tries[i] = 1

\* C18: no step of a list or detail request changes the set of records or
\* the stored objects.
C18_ReadsAreReadOnly ==
    [][\A r \in Slots :
          (reqs'[r] # reqs[r] /\ reqs'[r].kind \in {"list", "detail"}) =>
             /\ posts' = posts
             /\ store' = store]_vars

C18_Witness ==
    \E r, q \in Slots :
        /\ reqs[r].kind = "list" /\ Done(r) /\ reqs[r].resp.status = 200
        /\ reqs[r].found = posts /\ Len(posts) = 1
        /\ reqs[q].kind = "detail" /\ Done(q) /\ reqs[q].resp.status = 500
        /\ reqs[q].signRes = "fail"
        /\ posts[1].imageKey \in DOMAIN store

\* another upload holds the key: a record carries it or a compose has put it
KeyHeldElsewhere(k) ==
    \/ \E p \in Records : p.imageKey = k
    \/ \E s \in Slots : reqs[s].kind = "compose" /\ reqs[s].key = k
                          /\ reqs[s].putRes = "ok"

Busy(r) == reqs[r].pc \notin {"idle", "done"}

\* C19: a request has sent no response while it is being handled and exactly
\* one once it is done, never a second one; and every request being handled
\* eventually is done.
C19_ExactlyOneResponse ==
    /\ [](\A r \in Slots :
            /\ reqs[r].sent <= 1
            /\ Busy(r) => reqs[r].sent = 0 /\ reqs[r].resp = NoResp
            /\ Done(r) => reqs[r].sent = 1 /\ reqs[r].resp.status \in {200, 201, 404, 500})
    /\ \A r \in Slots : Busy(r) ~> Done(r)

C19_Witness ==
    /\ reqs[1].kind = "compose" /\ Done(1) /\ reqs[1].sent = 1
    /\ reqs[1].resp.status = 201
    /\ reqs[2].kind = "delete" /\ Done(2) /\ reqs[2].sent = 1
    /\ reqs[2].resp.status = 200
====
